---- MODULE Spec2Model ----
(***************************************************************************)
(* Meeting-Summarizer: the provider fallback chain of summarizer.py and    *)
(* the Summarize handler of main.py.                                       *)
(*                                                                         *)
(* A Python str is a sequence of one-character strings; a code point that  *)
(* is not ASCII is written as its "U+XXXX" name and is one character like  *)
(* any other.  None is a value outside the strings.                        *)
(***************************************************************************)
EXTENDS Integers, Sequences, FiniteSets, TLC

\* ------------------------------------------------------------------ bounds

\* GOOGLE_API_KEY (index 0) and GOOGLE_API_KEY_1 .. GOOGLE_API_KEY_<MaxKeyIdx>
\* may be set in the environment; every later suffix is unset.
MaxKeyIdx == 3

\* process_transcript_with_retry is called with max_retries in 0 .. MaxRetries.
MaxRetries == 3

\* The longest transcript, in words, given to process_transcript_demo alone
MaxWords == 400

\* ------------------------------------------------------------ Python values

None == <<"<None>">>

\* bool(v) for None and for strings
Truthy(v) == v # None /\ v # << >>

Whitespace == {" ", "\t", "\n", "\r", "\f"}

UpperCase == <<"A", "B", "C", "D", "E", "F", "G", "H", "I", "J", "K", "L", "M",
               "N", "O", "P", "Q", "R", "S", "T", "U", "V", "W", "X", "Y", "Z">>

LowerCase == <<"a", "b", "c", "d", "e", "f", "g", "h", "i", "j", "k", "l", "m",
               "n", "o", "p", "q", "r", "s", "t", "u", "v", "w", "x", "y", "z">>

LowerOf ==
    [c \in {UpperCase[i] : i \in 1..Len(UpperCase)} |->
        LowerCase[CHOOSE i \in 1..Len(UpperCase) : UpperCase[i] = c]]

CharLower(c) == IF c \in DOMAIN LowerOf THEN LowerOf[c] ELSE c

\* s.lower()
Lower(s) == [i \in 1..Len(s) |-> CharLower(s[i])]

\* sub in s
Contains(s, sub) ==
    \/ sub = << >>
    \/ \E i \in 0..(Len(s) - Len(sub)) :
          s[i + 1] = sub[1] /\ SubSeq(s, i + 1, i + Len(sub)) = sub

\* s.strip()
Strip(s) ==
    LET keep == {i \in 1..Len(s) : s[i] \notin Whitespace}
    IN  IF keep = {} THEN << >>
        ELSE SubSeq(s, CHOOSE i \in keep : \A j \in keep : i <= j,
                       CHOOSE i \in keep : \A j \in keep : j <= i)

\* len(s.split()): the maximal runs of characters that are not whitespace
WordCount(s) ==
    Cardinality({i \in 1..Len(s) :
                    /\ s[i] \notin Whitespace
                    /\ (i = 1 \/ s[i - 1] \in Whitespace)})

Digit(d) == <<SubSeq(<<"0", "1", "2", "3", "4", "5", "6", "7", "8", "9">>, d + 1, d + 1)[1]>>

\* str(n) and f"{n}" for an int n >= 0
RECURSIVE FormatInt(_)
FormatInt(n) == IF n < 10 THEN Digit(n) ELSE FormatInt(n \div 10) \o Digit(n % 10)

\* ------------------------------------------------------- is_quota_error

\* The classifier knowing the status code only
quota_indicators_status_only == << <<"4", "2", "9">> >>

quota_indicators ==
    << <<"q", "u", "o", "t", "a">>,
       <<"e", "x", "c", "e", "e", "d", "e", "d">>,
       <<"4", "2", "9">>,
       <<"r", "a", "t", "e", " ", "l", "i", "m", "i", "t">>,
       <<"l", "i", "m", "i", "t", " ", "e", "x", "c", "e", "e", "d", "e", "d">> >>

\* is_quota_error without .lower()
is_quota_error_case_sensitive(result) ==
    IF ~Truthy(result) THEN FALSE
    ELSE \E k \in 1..Len(quota_indicators) : Contains(result, quota_indicators[k])

is_quota_error(result) ==
    IF ~Truthy(result) THEN FALSE
    ELSE LET text == Lower(result)
         IN  \E k \in 1..Len(quota_indicators) : Contains(text, quota_indicators[k])

\* ------------------------------------------------- process_transcript_demo

DemoWarning == <<"P", "l", "e", "a", "s", "e", " ", "p", "r", "o", "v", "i", "d", "e", " ", "a", " ",
        "t", "r", "a", "n", "s", "c", "r", "i", "p", "t", " ", "t", "o", " ", "s", "u", "m",
        "m", "a", "r", "i", "z", "e", ".">>

DemoHead ==
    <<"\n", "#", "#", " ", "U+1F4CB", " ", "M", "e", "e", "t", "i", "n", "g", " ", "S", "u",
      "m", "m", "a", "r", "y", " ", "(", "D", "e", "m", "o", " ", "M", "o", "d", "e", ")", "\n",
      "\n", "*", "*", "T", "r", "a", "n", "s", "c", "r", "i", "p", "t", " ", "L", "e", "n", "g",
      "t", "h", ":", "*", "*", " ">>

DemoSummary ==
    <<" ", "w", "o", "r", "d", "s", "\n", "\n", "*", "*", "S", "u", "m", "m", "a", "r", "y",
      ":", "*", "*", "\n", "T", "h", "i", "s", " ", "i", "s", " ", "a", " ", "d", "e", "m", "o",
      " ", "s", "u", "m", "m", "a", "r", "y", " ", "o", "f", " ", "y", "o", "u", "r", " ", "m",
      "e", "e", "t", "i", "n", "g", " ", "t", "r", "a", "n", "s", "c", "r", "i", "p", "t", ".",
      " ", "T", "h", "e", " ", "a", "c", "t", "u", "a", "l", " ", "A", "I", "-", "p", "o", "w",
      "e", "r", "e", "d", " ", "s", "u", "m", "m", "a", "r", "i", "z", "a", "t", "i", "o", "n",
      " ", "r", "e", "q", "u", "i", "r", "e", "s", " ", "a", " ", "v", "a", "l", "i", "d", " ",
      "A", "P", "I", " ", "k", "e", "y", " ", "a", "n", "d", " ", "a", "v", "a", "i", "l", "a",
      "b", "l", "e", " ", "q", "u", "o", "t", "a", ".", "\n", "\n", "*", "*", "K", "e", "y",
      " ", "P", "o", "i", "n", "t", "s", ":", "*", "*", "\n", "-", " ", "M", "e", "e", "t", "i",
      "n", "g", " ", "t", "r", "a", "n", "s", "c", "r", "i", "p", "t", " ", "c", "o", "n", "t",
      "a", "i", "n", "s", " ">>

DemoAdvice ==
    <<" ", "w", "o", "r", "d", "s", "\n", "-", " ", "T", "o", " ", "g", "e", "t", " ", "r", "e",
      "a", "l", " ", "A", "I", " ", "s", "u", "m", "m", "a", "r", "i", "z", "a", "t", "i", "o",
      "n", ",", " ", "e", "n", "s", "u", "r", "e", " ", "y", "o", "u", "r", " ", "A", "P", "I",
      " ", "k", "e", "y", " ", "i", "s", " ", "v", "a", "l", "i", "d", " ", "a", "n", "d", " ",
      "h", "a", "s", " ", "a", "v", "a", "i", "l", "a", "b", "l", "e", " ", "q", "u", "o", "t",
      "a", "\n", "-", " ", "C", "u", "r", "r", "e", "n", "t", " ", "m", "o", "d", "e", ":", " ",
      "D", "e", "m", "o", "/", "T", "e", "s", "t", "i", "n", "g", " ", "d", "u", "e", " ", "t",
      "o", " ", "q", "u", "o", "t", "a", " ", "l", "i", "m", "i", "t", "s", "\n", "\n", "*",
      "*", "A", "c", "t", "i", "o", "n", " ", "I", "t", "e", "m", "s", ":", "*", "*", "\n", "-",
      " ", "C", "h", "e", "c", "k", " ", "y", "o", "u", "r", " ", "A", "P", "I", " ", "k", "e",
      "y", " ", "s", "t", "a", "t", "u", "s", "\n", "-", " ", "C", "o", "n", "s", "i", "d", "e",
      "r", " ", "u", "s", "i", "n", "g", " ", "m", "u", "l", "t", "i", "p", "l", "e", " ", "A",
      "P", "I", " ", "k", "e", "y", "s", " ", "o", "r", " ", "a", "l", "t", "e", "r", "n", "a",
      "t", "i", "v", "e", " ", "p", "r", "o", "v", "i", "d", "e", "r", "s", "\n", "-", " ", "T",
      "h", "e", " ", "A", "I", " ", "w", "i", "l", "l", " ", "t", "h", "e", "n", " ", "p", "r",
      "o", "v", "i", "d", "e", " ", "d", "e", "t", "a", "i", "l", "e", "d", " ", "m", "e", "e",
      "t", "i", "n", "g", " ", "a", "n", "a", "l", "y", "s", "i", "s", "\n", "\n", "*", "*",
      "E", "s", "t", "i", "m", "a", "t", "e", "d", " ", "R", "e", "a", "d", "i", "n", "g", " ",
      "T", "i", "m", "e", ":", "*", "*", " ">>

DemoTail ==
    <<" ", "m", "i", "n", "u", "t", "e", "s", "\n">>

WordsPerMinute == 200

\* The word counts n <= 1000 with n / 200 half way between two tenths for which
\* the IEEE double nearest to n / 200 lies above the half: ".1f" rounds them up.
\* An exact half (50 / 200 = 0.25) goes to the even tenth, the others down.
HalvesRoundedUp ==
    {10, 90, 110, 130, 150, 210, 270, 310, 350, 370, 470, 490, 550, 570, 590,
     670, 690, 750, 770, 790, 830, 890, 930, 950, 990}

\* The reading time cut off after the first decimal instead of rounded
ReadingTimeTruncated(word_count) ==
    FormatInt(word_count \div WordsPerMinute)
        \o <<".">> \o Digit((word_count % WordsPerMinute) \div (WordsPerMinute \div 10))

\* f"{word_count / 200:.1f}"
ReadingTime(word_count) ==
    LET unit   == WordsPerMinute \div 10
        half   == unit \div 2
        down   == word_count \div unit
        tenths == IF \/ word_count % unit > half
                     \/ word_count % unit = half /\ word_count \in HalvesRoundedUp
                  THEN down + 1 ELSE down
    IN  FormatInt(tenths \div 10) \o <<".">> \o Digit(tenths % 10)

DemoReport(word_count) ==
    DemoHead \o FormatInt(word_count) \o DemoSummary \o FormatInt(word_count)
             \o DemoAdvice \o ReadingTime(word_count) \o DemoTail

\* The value process_transcript_demo returns; None.strip() raises instead.
DemoRaises(transcript) == transcript = None

\* A report that says nothing of quotas
process_transcript_demo_plain(transcript) ==
    IF Strip(transcript) = << >> THEN DemoWarning
    ELSE DemoHead \o FormatInt(WordCount(transcript))

process_transcript_demo(transcript) ==
    IF Strip(transcript) = << >> THEN DemoWarning
    ELSE DemoReport(WordCount(transcript))

\* ---------------------------------------------------- get_multiple_api_keys

\* os.getenv of the base name (i = 0) or of the name with suffix _i
Getenv(env, i) == IF i \in DOMAIN env THEN env[i] ELSE None

RECURSIVE ScanAdditional(_, _, _)
ScanAdditional(env, i, keys) ==
    IF Truthy(Getenv(env, i))
    THEN ScanAdditional(env, i + 1, Append(keys, Getenv(env, i)))
    ELSE keys

\* get_multiple_api_keys going on past a missing suffix
get_every_api_key(env) ==
    SelectSeq([i \in 1..(MaxKeyIdx + 1) |-> Getenv(env, i - 1)], Truthy)

\* get_multiple_api_keys giving up when the base name is not set
get_keys_base_required(env) ==
    IF Truthy(Getenv(env, 0)) THEN ScanAdditional(env, 1, <<Getenv(env, 0)>>) ELSE << >>

get_multiple_api_keys(env) ==
    ScanAdditional(env, 1, IF Truthy(Getenv(env, 0)) THEN <<Getenv(env, 0)>> ELSE << >>)

\* --------------------------------------------------------- hosted backends

\* The texts a backend may generate: an answer, an answer that talks about rate
\* limits, an empty one and one of white space only.
SummaryText == <<"S", "u", "m", "m", "a", "r", "y", ":", " ", "t", "h", "e", " ", "t", "e", "a", "m",
        " ", "a", "g", "r", "e", "e", "d", " ", "o", "n", " ", "X">>

Answers == {SummaryText, <<"R", "a", "t", "e", " ", "L", "i", "m", "i", "t", " ", "h", "i", "t">>, << >>, <<" ">>}

\* What one outbound request can come to: a transport fault with its
\* description, or an HTTP response with its status and JSON body.
Fault(msg) == [kind |-> "fault", status |-> 0, body |-> None, msg |-> msg]

\* No request was made
NoResponse == [kind |-> "none", status |-> 0, body |-> None, msg |-> << >>]

Http(status, body) == [kind |-> "http", status |-> status, body |-> body, msg |-> << >>]

FaultMessages == {<<"R", "e", "a", "d", " ", "t", "i", "m", "e", "d", " ", "o", "u", "t", ".">>, <<"M", "a", "x", " ", "r", "e", "t", "r", "i", "e", "s", " ", "e", "x", "c", "e", "e",
        "d", "e", "d", " ", "w", "i", "t", "h", " ", "u", "r", "l">>}

HTTP_OK == 200

HTTP_TOO_MANY == 429

ErrorStatuses == {HTTP_TOO_MANY, 500}

\* A chat body: well formed with its answer text, or lacking the key the
\* adapter indexes first (KeyError, whose str is the quoted key).
ChatBody(content) == [wf |-> TRUE, content |-> content, missing |-> << >>]

ChatBodyWithout(key) == [wf |-> FALSE, content |-> << >>, missing |-> key]

Quoted(s) == <<"'">> \o s \o <<"'">>

OpenAIResponses ==
    {Fault(m) : m \in FaultMessages}
      \cup {Http(s, None) : s \in ErrorStatuses}
      \cup {Http(HTTP_OK, ChatBody(a)) : a \in Answers}
      \cup {Http(HTTP_OK, ChatBodyWithout(<<"c", "h", "o", "i", "c", "e", "s">>))}

AnthropicResponses ==
    {Fault(m) : m \in FaultMessages}
      \cup {Http(s, None) : s \in ErrorStatuses}
      \cup {Http(HTTP_OK, ChatBody(a)) : a \in Answers}
      \cup {Http(HTTP_OK, ChatBodyWithout(<<"c", "o", "n", "t", "e", "n", "t">>))}

\* A JSON object is a sequence of <<key, value>> pairs of strings; the Hugging
\* Face body is a list of objects or one object.
JsonList(items) == [tag |-> "list", items |-> items]

JsonObject(fields) == [tag |-> "dict", items |-> fields]

HasKey(obj, key) == \E i \in 1..Len(obj) : obj[i][1] = key

Lookup(obj, key) == obj[CHOOSE i \in 1..Len(obj) : obj[i][1] = key][2]

RECURSIVE JoinComma(_)
JoinComma(parts) ==
    IF parts = << >> THEN << >>
    ELSE IF Len(parts) = 1 THEN parts[1]
    ELSE parts[1] \o <<",", " ">> \o JoinComma(Tail(parts))

\* str() of a dict of strings and of a list of such dicts
ReprObject(obj) ==
    <<"{">> \o JoinComma([i \in 1..Len(obj) |->
                            Quoted(obj[i][1]) \o <<":", " ">> \o Quoted(obj[i][2])])
            \o <<"}">>

ReprJson(body) ==
    IF body.tag = "list"
    THEN <<"[">> \o JoinComma([i \in 1..Len(body.items) |-> ReprObject(body.items[i])])
                 \o <<"]">>
    ELSE ReprObject(body.items)

summary_text == <<"s", "u", "m", "m", "a", "r", "y", "_", "t", "e", "x", "t">>

HuggingFaceBodies ==
    {JsonList(<< <<  <<summary_text, a>>  >> >>) : a \in Answers}
      \cup {JsonList(<< >>),
            JsonList(<< <<  <<<<"g", "e", "n", "e", "r", "a", "t", "e", "d", "_", "t", "e", "x", "t">>, SummaryText>>  >> >>),
            JsonObject(<< <<<<"e", "r", "r", "o", "r">>, <<"M", "o", "d", "e", "l", " ", "i", "s", " ", "l", "o", "a", "d", "i", "n", "g">>>> >>)}

HuggingFaceResponses ==
    {Fault(m) : m \in FaultMessages}
      \cup {Http(s, None) : s \in ErrorStatuses}
      \cup {Http(HTTP_OK, b) : b \in HuggingFaceBodies}

\* One generate_content call of the Gemini client: a response with its text,
\* or an exception with its message.
GeminiText(text) == [kind |-> "text", text |-> text]

GeminiError(msg) == [kind |-> "error", text |-> msg]

GeminiOutcomes ==
    {GeminiText(a) : a \in Answers}
      \cup {GeminiError(<<"4", "2", "9", " ", "Q", "u", "o", "t", "a", " ", "e", "x", "c", "e", "e", "d", "e",
        "d">>), GeminiError(<<"4", "0", "0", " ", "A", "P", "I", " ", "k", "e", "y", " ", "n", "o", "t", " ", "v",
        "a", "l", "i", "d">>)}

\* ------------------------------------------------------------- environment

\* A variable of the environment is unset, set to the empty string, or set.
ApiKey(i) == <<"k", "e", "y">> \o FormatInt(i)

KeyValues(i) == {None, << >>, ApiKey(i)}

GoogleEnvs == {env \in [0..MaxKeyIdx -> UNION {KeyValues(i) : i \in 0..MaxKeyIdx}] :
                 \A i \in 0..MaxKeyIdx : env[i] \in KeyValues(i)}

\* ---------------------------------------------------------------- adapters

\* The closing message of try_google_gemini worded without "quota"
GoogleExhaustedPlain == <<"U+274C", " ", "N", "o", " ", "G", "o", "o", "g", "l", "e", " ", "A", "P", "I", " ",
        "k", "e", "y", " ", "w", "o", "r", "k", "e", "d", ".", " ", "T", "r", "y", "i", "n",
        "g", " ", "o", "t", "h", "e", "r", " ", "p", "r", "o", "v", "i", "d", "e", "r", "s",
        ".", ".", ".">>

GoogleExhausted ==
    <<"U+274C", " ", "A", "l", "l", " ", "G", "o", "o", "g", "l", "e", " ", "A", "P", "I",
        " ", "k", "e", "y", "s", " ", "h", "a", "v", "e", " ", "q", "u", "o", "t", "a", " ",
        "e", "x", "c", "e", "e", "d", "e", "d", ".", " ", "T", "r", "y", "i", "n", "g", " ",
        "o", "t", "h", "e", "r", " ", "p", "r", "o", "v", "i", "d", "e", "r", "s", ".", ".",
        ".">>

\* try_openai_gpt without its branch for status 429
try_openai_gpt_no_429(api_key, resp) ==
    IF ~Truthy(api_key) THEN None
    ELSE IF resp.kind = "fault" THEN <<"U+274C", " ", "O", "p", "e", "n", "A", "I", " ", "e", "r", "r", "o", "r", ":", " ">> \o resp.msg
    ELSE IF resp.status = HTTP_OK
         THEN IF resp.body.wf THEN resp.body.content
              ELSE <<"U+274C", " ", "O", "p", "e", "n", "A", "I", " ", "e", "r", "r", "o", "r", ":", " ">> \o Quoted(resp.body.missing)
    ELSE <<"U+274C", " ", "O", "p", "e", "n", "A", "I", " ", "e", "r", "r", "o", "r", ":", " ">> \o FormatInt(resp.status)

\* try_openai_gpt, given what os.getenv and requests.post come to
try_openai_gpt(api_key, resp) ==
    IF ~Truthy(api_key) THEN None
    ELSE IF resp.kind = "fault" THEN <<"U+274C", " ", "O", "p", "e", "n", "A", "I", " ", "e", "r", "r", "o", "r", ":", " ">> \o resp.msg
    ELSE IF resp.status = HTTP_OK
         THEN IF resp.body.wf THEN resp.body.content
              ELSE <<"U+274C", " ", "O", "p", "e", "n", "A", "I", " ", "e", "r", "r", "o", "r", ":", " ">> \o Quoted(resp.body.missing)
    ELSE IF resp.status = HTTP_TOO_MANY THEN <<"U+274C", " ", "O", "p", "e", "n", "A", "I", " ", "r", "a", "t", "e", " ", "l", "i",
        "m", "i", "t", " ", "e", "x", "c", "e", "e", "d", "e", "d">>
    ELSE <<"U+274C", " ", "O", "p", "e", "n", "A", "I", " ", "e", "r", "r", "o", "r", ":", " ">> \o FormatInt(resp.status)

try_anthropic_claude(api_key, resp) ==
    IF ~Truthy(api_key) THEN None
    ELSE IF resp.kind = "fault" THEN <<"U+274C", " ", "A", "n", "t", "h", "r", "o", "p", "i", "c", " ", "e", "r", "r", "o",
        "r", ":", " ">> \o resp.msg
    ELSE IF resp.status = HTTP_OK
         THEN IF resp.body.wf THEN resp.body.content
              ELSE <<"U+274C", " ", "A", "n", "t", "h", "r", "o", "p", "i", "c", " ", "e", "r", "r", "o",
        "r", ":", " ">> \o Quoted(resp.body.missing)
    ELSE IF resp.status = HTTP_TOO_MANY THEN <<"U+274C", " ", "A", "n", "t", "h", "r", "o", "p", "i", "c", " ", "r", "a", "t", "e",
        " ", "l", "i", "m", "i", "t", " ", "e", "x", "c", "e", "e", "d", "e", "d">>
    ELSE <<"U+274C", " ", "A", "n", "t", "h", "r", "o", "p", "i", "c", " ", "e", "r", "r", "o",
        "r", ":", " ">> \o FormatInt(resp.status)

try_huggingface(api_key, resp) ==
    IF ~Truthy(api_key) THEN None
    ELSE IF resp.kind = "fault" THEN <<"U+274C", " ", "H", "u", "g", "g", "i", "n", "g", " ", "F", "a", "c", "e", " ", "e",
        "r", "r", "o", "r", ":", " ">> \o resp.msg
    ELSE IF resp.status = HTTP_OK
         THEN IF resp.body.tag = "list" /\ Len(resp.body.items) > 0
              THEN IF HasKey(resp.body.items[1], summary_text)
                   THEN Lookup(resp.body.items[1], summary_text)
                   ELSE <<"U+274C", " ", "H", "u", "g", "g", "i", "n", "g", " ", "F", "a", "c", "e", " ", "e",
        "r", "r", "o", "r", ":", " ">> \o Quoted(summary_text)
              ELSE ReprJson(resp.body)
    ELSE IF resp.status = HTTP_TOO_MANY THEN <<"U+274C", " ", "H", "u", "g", "g", "i", "n", "g", " ", "F", "a", "c", "e", " ", "r",
        "a", "t", "e", " ", "l", "i", "m", "i", "t", " ", "e", "x", "c", "e", "e", "d", "e",
        "d">>
    ELSE <<"U+274C", " ", "H", "u", "g", "g", "i", "n", "g", " ", "F", "a", "c", "e", " ", "e",
        "r", "r", "o", "r", ":", " ">> \o FormatInt(resp.status)

\* An adapter that posts its request a second time
RequestsTwice(api_key) == IF Truthy(api_key) THEN 2 ELSE 0

\* The number of outbound requests an adapter with one credential makes
Requests(api_key) == IF Truthy(api_key) THEN 1 ELSE 0

\* -------------------------------------------------------------------- state

\* The transcripts submitted: empty, white space only, and two with words.
Transcripts == {<< >>, <<" ", "\t", "\n">>, <<"h", "i", " ", "t", "h", "e", "r", "e">>, <<" ", "Q", "3", " ", "b", "u", "d", "g", "e", "t", " ", "r", "e", "v", "i", "e", "w",
        "\n">>}

Providers == <<"google_gemini", "openai_gpt", "anthropic_claude", "huggingface", "demo">>

\* How process_transcript takes what a provider came to
ResultKind(r) ==
    IF r = None THEN "absent"
    ELSE IF r = << >> THEN "empty"
    ELSE IF is_quota_error(r) THEN "quota" ELSE "usable"

NoEnv == [i \in 0..MaxKeyIdx |-> None]

MainWarning == <<"P", "l", "e", "a", "s", "e", " ", "e", "n", "t", "e", "r", " ", "a", " ", "m", "e",
        "e", "t", "i", "n", "g", " ", "t", "r", "a", "n", "s", "c", "r", "i", "p", "t", ".">>

RetriesReached == <<"U+274C", " ", "M", "a", "x", "i", "m", "u", "m", " ", "r", "e", "t", "r", "y", " ",
        "a", "t", "t", "e", "m", "p", "t", "s", " ", "r", "e", "a", "c", "h", "e", "d", ".">>

\* str(e) of the AttributeError of None.strip()
NoStripMessage == <<"'", "N", "o", "n", "e", "T", "y", "p", "e", "'", " ", "o", "b", "j", "e", "c", "t",
        " ", "h", "a", "s", " ", "n", "o", " ", "a", "t", "t", "r", "i", "b", "u", "t", "e",
        " ", "'", "s", "t", "r", "i", "p", "'">>

VARIABLES
    pc,           \* where control is
    caller,       \* the entry point called: "main", "direct" or "retry"
    transcript,   \* the transcript the entry point was given
    idx,          \* process_transcript: the place in providers (from 1)
    result,       \* process_transcript: what provider_func returned
    raised,       \* process_transcript: provider_func raised instead
    genv,         \* try_google_gemini: the GOOGLE_API_KEY* variables as read
    api_keys,     \* try_google_gemini: the keys discovered
    ki,           \* try_google_gemini: the place in api_keys (from 1)
    outcome,      \* how process_transcript ended: "return" or "raise"
    retval,       \* the value it returned, or str(e) of what it raised
    invoked,      \* the places in providers invoked in this pass, in order
    kinds,        \* what each of them came to, in the same order: "usable",
                  \* "quota", "absent", "empty" or "raised"
    calls,        \* the outbound requests made in this pass
    discovered,   \* the number of Google keys discovered in this pass
    api_key,      \* the adapter invoked last: the credential it read
    resp,         \* the adapter invoked last: what its last request came to
    max_retries,  \* process_transcript_with_retry's argument
    attempt,      \* process_transcript_with_retry: the loop variable
    sleeps,       \* the time.sleep(delay) calls made
    passes,       \* how each finished pass ended: "quota", "usable" or "fault"
    shown,        \* how the entry point ended
    final         \* the value it displayed or returned

passVars == <<transcript, idx, result, raised, genv, api_keys, ki, outcome, retval,
              invoked, kinds, calls, discovered, api_key, resp>>

retryVars == <<max_retries, attempt, sleeps, passes>>

endVars == <<shown, final>>

vars == <<pc, caller, passVars, retryVars, endVars>>

Init ==
    /\ pc = "idle"
    /\ caller = "none"
    /\ transcript = None
    /\ idx = 0
    /\ result = None
    /\ raised = FALSE
    /\ genv = NoEnv
    /\ api_keys = << >>
    /\ ki = 0
    /\ outcome = "none"
    /\ retval = None
    /\ invoked = << >>
    /\ kinds = << >>
    /\ calls = 0
    /\ discovered = 0
    /\ api_key = None
    /\ resp = NoResponse
    /\ max_retries = 0
    /\ attempt = 0
    /\ sleeps = 0
    /\ passes = << >>
    /\ shown = "none"
    /\ final = None

\* ------------------------------------------------------- process_transcript

\* A call of process_transcript(t): its locals are fresh.
StartPass(t) ==
    /\ pc' = "loop"
    /\ transcript' = t
    /\ idx' = 1
    /\ result' = None
    /\ raised' = FALSE
    /\ genv' = NoEnv
    /\ api_keys' = << >>
    /\ ki' = 0
    /\ outcome' = "none"
    /\ retval' = None
    /\ invoked' = << >>
    /\ kinds' = << >>
    /\ calls' = 0
    /\ discovered' = 0
    /\ api_key' = None
    /\ resp' = NoResponse

\* provider_func(transcript) returned v (line 25)
Returns(v) ==
    /\ pc' = "classify"
    /\ result' = v
    /\ raised' = FALSE
    /\ kinds' = Append(kinds, ResultKind(v))

\* try_google_gemini is entered: the keys are read from the environment
TryGoogle ==
    /\ pc = "loop"
    /\ Providers[idx] = "google_gemini"
    /\ \E env \in GoogleEnvs :
          /\ genv' = env
          /\ api_keys' = get_multiple_api_keys(env)
          /\ discovered' = Len(get_multiple_api_keys(env))
    /\ ki' = 1
    /\ pc' = "gemini"
    /\ invoked' = Append(invoked, idx)
    /\ UNCHANGED <<caller, transcript, idx, result, raised, outcome, retval, kinds,
                   calls, api_key, resp, retryVars, endVars>>

\* One turn of try_google_gemini's loop over api_keys
GeminiKey ==
    /\ pc = "gemini"
    /\ ki <= Len(api_keys)
    /\ api_key' = api_keys[ki]
    /\ \E o \in GeminiOutcomes :
          IF ~Truthy(api_keys[ki])
          THEN /\ ki' = ki + 1
               /\ UNCHANGED <<pc, result, raised, kinds, calls, genv, api_keys, resp>>
          ELSE /\ calls' = calls + 1
               /\ resp' = o
               /\ IF o.kind = "text" /\ Truthy(o.text)
                  THEN /\ Returns(o.text)
                       /\ genv' = NoEnv
                       /\ api_keys' = << >>
                       /\ ki' = 0
                  ELSE /\ ki' = ki + 1
                       /\ UNCHANGED <<pc, result, raised, kinds, genv, api_keys>>
    /\ UNCHANGED <<caller, transcript, idx, outcome, retval, invoked, discovered,
                   retryVars, endVars>>

\* try_google_gemini's loop is over
GeminiExhausted ==
    /\ pc = "gemini"
    /\ ki > Len(api_keys)
    /\ Returns(GoogleExhausted)
    /\ genv' = NoEnv
    /\ api_keys' = << >>
    /\ ki' = 0
    /\ UNCHANGED <<caller, transcript, idx, outcome, retval, invoked, calls,
                   discovered, api_key, resp, retryVars, endVars>>

TryOpenAI ==
    /\ pc = "loop"
    /\ Providers[idx] = "openai_gpt"
    /\ \E key \in KeyValues(0), r \in OpenAIResponses :
          /\ api_key' = key
          /\ resp' = IF Truthy(key) THEN r ELSE NoResponse
          /\ Returns(try_openai_gpt(key, r))
          /\ calls' = calls + Requests(key)
    /\ invoked' = Append(invoked, idx)
    /\ UNCHANGED <<caller, transcript, idx, genv, api_keys, ki, outcome, retval,
                   discovered, retryVars, endVars>>

TryAnthropic ==
    /\ pc = "loop"
    /\ Providers[idx] = "anthropic_claude"
    /\ \E key \in KeyValues(0), r \in AnthropicResponses :
          /\ api_key' = key
          /\ resp' = IF Truthy(key) THEN r ELSE NoResponse
          /\ Returns(try_anthropic_claude(key, r))
          /\ calls' = calls + Requests(key)
    /\ invoked' = Append(invoked, idx)
    /\ UNCHANGED <<caller, transcript, idx, genv, api_keys, ki, outcome, retval,
                   discovered, retryVars, endVars>>

TryHuggingFace ==
    /\ pc = "loop"
    /\ Providers[idx] = "huggingface"
    /\ \E key \in KeyValues(0), r \in HuggingFaceResponses :
          /\ api_key' = key
          /\ resp' = IF Truthy(key) THEN r ELSE NoResponse
          /\ Returns(try_huggingface(key, r))
          /\ calls' = calls + Requests(key)
    /\ invoked' = Append(invoked, idx)
    /\ UNCHANGED <<caller, transcript, idx, genv, api_keys, ki, outcome, retval,
                   discovered, retryVars, endVars>>

\* process_transcript_demo as the last provider of the list
TryDemo ==
    /\ pc = "loop"
    /\ Providers[idx] = "demo"
    /\ IF DemoRaises(transcript)
       THEN /\ pc' = "classify"
            /\ raised' = TRUE
            /\ result' = None
            /\ kinds' = Append(kinds, "raised")
       ELSE Returns(process_transcript_demo(transcript))
    /\ invoked' = Append(invoked, idx)
    /\ UNCHANGED <<caller, transcript, idx, genv, api_keys, ki, outcome, retval,
                   calls, discovered, api_key, resp, retryVars, endVars>>

\* line 26 with the test of is_quota_error the wrong way round
AcceptsInverted(r) == Truthy(r) /\ is_quota_error(r)

\* line 26 without the test of is_quota_error
AcceptsAnyText(r) == Truthy(r)

\* line 26: the result is returned as the answer
Accepts(r) == Truthy(r) /\ ~is_quota_error(r)

\* lines 26-34: return the result, or go on with the next provider
Classify ==
    /\ pc = "classify"
    /\ IF ~raised /\ Accepts(result)
       THEN /\ pc' = "returned"
            /\ outcome' = "return"
            /\ retval' = result
            /\ idx' = idx
       ELSE /\ pc' = IF idx = Len(Providers) THEN "fallback" ELSE "loop"
            /\ idx' = idx + 1
            /\ UNCHANGED <<outcome, retval>>
    /\ UNCHANGED <<caller, transcript, result, raised, genv, api_keys, ki, invoked,
                   kinds, calls, discovered, api_key, resp, retryVars, endVars>>

\* process_transcript without its line 37: the function ends, returning None
FallbackMissing ==
    /\ pc = "fallback"
    /\ pc' = "returned"
    /\ outcome' = "return"
    /\ retval' = None
    /\ UNCHANGED <<caller, transcript, idx, result, raised, genv, api_keys, ki,
                   invoked, kinds, calls, discovered, api_key, resp, retryVars, endVars>>

\* line 37: the list is exhausted
Fallback ==
    /\ pc = "fallback"
    /\ pc' = "returned"
    /\ IF DemoRaises(transcript)
       THEN /\ outcome' = "raise"
            /\ retval' = NoStripMessage
       ELSE /\ outcome' = "return"
            /\ retval' = process_transcript_demo(transcript)
    /\ UNCHANGED <<caller, transcript, idx, result, raised, genv, api_keys, ki,
                   invoked, kinds, calls, discovered, api_key, resp, retryVars, endVars>>

\* ------------------------------------------------------------- entry points

\* main.py: the Summarize button with the text area holding t
\* main.py line 15 without .strip()
MainRejectsEmptyOnly(t) == t = << >>

\* main.py line 15
MainRejects(t) == Strip(t) = << >>

Summarize ==
    /\ pc = "idle"
    /\ caller' = "main"
    /\ \E t \in Transcripts :
          IF MainRejects(t)
          THEN /\ pc' = "done"
               /\ transcript' = t
               /\ shown' = "warning"
               /\ final' = MainWarning
               /\ UNCHANGED <<idx, result, raised, genv, api_keys, ki, outcome, retval,
                              invoked, kinds, calls, discovered, api_key, resp>>
          ELSE /\ StartPass(t)
               /\ UNCHANGED endVars
    /\ UNCHANGED retryVars

\* main.py lines 20-21: the result is rendered
MainShow ==
    /\ pc = "returned"
    /\ caller = "main"
    /\ pc' = "done"
    /\ shown' = IF outcome = "return" THEN "markdown" ELSE "exception"
    /\ final' = retval
    /\ UNCHANGED <<caller, passVars, retryVars>>

\* process_transcript called by itself, with a string or with None
CallProcessTranscript ==
    /\ pc = "idle"
    /\ caller' = "direct"
    /\ \E t \in Transcripts \cup {None} : StartPass(t)
    /\ UNCHANGED <<retryVars, endVars>>

DirectReturn ==
    /\ pc = "returned"
    /\ caller = "direct"
    /\ pc' = "done"
    /\ shown' = IF outcome = "return" THEN "value" ELSE "exception"
    /\ final' = retval
    /\ UNCHANGED <<caller, passVars, retryVars>>

\* process_transcript_with_retry(t, m, delay) is called
CallWithRetry ==
    /\ pc = "idle"
    /\ caller' = "retry"
    /\ attempt' = 0
    /\ \E t \in Transcripts \cup {None}, m \in 0..MaxRetries :
          /\ max_retries' = m
          /\ IF m = 0
             THEN /\ pc' = "done"
                  /\ shown' = "value"
                  /\ final' = RetriesReached
                  /\ transcript' = t
                  /\ UNCHANGED <<idx, result, raised, genv, api_keys, ki, outcome,
                                 retval, invoked, kinds, calls, discovered, api_key, resp>>
             ELSE /\ StartPass(t)
                  /\ UNCHANGED endVars
    /\ UNCHANGED <<sleeps, passes>>

\* lines 327 and 336 with the bound one too high
AttemptsRemainOffByOne == attempt < max_retries

\* line 327 and line 336
AttemptsRemain == attempt < max_retries - 1

PassKind ==
    IF outcome = "raise" THEN "fault"
    ELSE IF is_quota_error(retval) THEN "quota" ELSE "usable"

\* The wrapper without its except clause: a fault of the pass leaves the wrapper
RetryCheckNoExcept ==
    /\ pc = "returned"
    /\ caller = "retry"
    /\ passes' = Append(passes, PassKind)
    /\ IF PassKind = "quota" /\ AttemptsRemain
       THEN /\ sleeps' = sleeps + 1
            /\ attempt' = attempt + 1
            /\ StartPass(transcript)
            /\ UNCHANGED endVars
       ELSE /\ pc' = "done"
            /\ shown' = IF PassKind = "fault" THEN "exception" ELSE "value"
            /\ final' = retval
            /\ UNCHANGED <<passVars, sleeps, attempt>>
    /\ UNCHANGED <<caller, max_retries>>

\* lines 323-340: the pass is over
RetryCheck ==
    /\ pc = "returned"
    /\ caller = "retry"
    /\ passes' = Append(passes, PassKind)
    /\ IF PassKind # "usable" /\ AttemptsRemain
       THEN /\ sleeps' = sleeps + 1
            /\ attempt' = attempt + 1
            /\ StartPass(transcript)
            /\ UNCHANGED endVars
       ELSE /\ pc' = "done"
            /\ shown' = "value"
            /\ final' = IF PassKind = "fault"
                        THEN <<"U+274C", " ", "E", "r", "r", "o", "r", " ", "a", "f", "t", "e", "r", " ">> \o FormatInt(max_retries)
                               \o <<" ", "a", "t", "t", "e", "m", "p", "t", "s", ":", " ">> \o retval
                        ELSE retval
            /\ UNCHANGED <<passVars, sleeps, attempt>>
    /\ UNCHANGED <<caller, max_retries>>

Next ==
    \/ Summarize
    \/ MainShow
    \/ CallProcessTranscript
    \/ DirectReturn
    \/ CallWithRetry
    \/ RetryCheck
    \/ TryGoogle
    \/ GeminiKey
    \/ GeminiExhausted
    \/ TryOpenAI
    \/ TryAnthropic
    \/ TryHuggingFace
    \/ TryDemo
    \/ Classify
    \/ Fallback

Spec == Init /\ [][Next]_vars

\* ------------------------------------------ process_transcript_demo alone

\* A transcript of n one-letter words with single spaces between them
Words(n) ==
    IF n = 0 THEN << >>
    ELSE [i \in 1..(2 * n - 1) |-> IF i % 2 = 1 THEN "w" ELSE " "]

\* The transcripts of 0..MaxWords words, bare and with white space around them
DemoTranscripts ==
    {Words(n) : n \in 0..MaxWords}
        \cup {<<" ">> \o Words(n) \o <<"\n">> : n \in 0..MaxWords}

InitDemo ==
    /\ pc = "demo_idle"
    /\ caller = "demo"
    /\ transcript \in DemoTranscripts
    /\ idx = 0
    /\ result = None
    /\ raised = FALSE
    /\ genv = NoEnv
    /\ api_keys = << >>
    /\ ki = 0
    /\ outcome = "none"
    /\ retval = None
    /\ invoked = << >>
    /\ kinds = << >>
    /\ calls = 0
    /\ discovered = 0
    /\ api_key = None
    /\ resp = NoResponse
    /\ max_retries = 0
    /\ attempt = 0
    /\ sleeps = 0
    /\ passes = << >>
    /\ shown = "none"
    /\ final = None

\* process_transcript_demo(transcript), called on its own
DemoCall ==
    /\ pc = "demo_idle"
    /\ pc' = "demo_done"
    /\ IF DemoRaises(transcript)
       THEN /\ outcome' = "raise"
            /\ retval' = NoStripMessage
       ELSE /\ outcome' = "return"
            /\ retval' = process_transcript_demo(transcript)
    /\ UNCHANGED <<caller, transcript, idx, result, raised, genv, api_keys, ki,
                   invoked, kinds, calls, discovered, api_key, resp, retryVars,
                   endVars>>

NextDemo == DemoCall

SpecDemo == InitDemo /\ [][NextDemo]_vars

\* -------------------------------------------------------------- properties

IsStr(v) == v # None /\ \A i \in 1..Len(v) : v[i] # None[1]

IsBlank(t) == \A i \in 1..Len(t) : t[i] \in Whitespace

InPass == {"loop", "gemini", "classify", "fallback"}

Hosted == {k \in 1..Len(Providers) : Providers[k] # "demo"}

\* C1: a call of process_transcript with a string never stays inside the call
\* (in every state inside it the guard of a step holds: the loop is at a provider
\* of the list, the key loop at a key or just past the last one, and the indexes
\* only grow), and it ends by returning a string: nothing is raised out of it.
\* No provider raises on a string; what a provider raises inside the loop (the
\* last one, given None) is caught there, the pass going on to line 37.
C1_AlwaysReturnsString ==
    /\ pc \in {"loop", "classify"} => idx \in 1..Len(Providers)
    /\ pc = "loop" => Len(invoked) = idx - 1
    /\ pc = "gemini" => ki \in 1..(Len(api_keys) + 1) /\ calls <= ki - 1
    /\ pc = "returned" => caller \in {"main", "direct", "retry"} /\ outcome # "none"
    /\ transcript # None /\ outcome # "none" => outcome = "return" /\ IsStr(retval)
    /\ transcript # None => ~raised
    /\ raised /\ outcome # "none" => idx = Len(Providers) + 1

C1_Witness ==
    /\ pc = "returned"
    /\ outcome = "return"
    /\ transcript = <<"h", "i", " ", "t", "h", "e", "r", "e">>
    /\ Len(invoked) = Len(Providers)
    /\ \E k \in Hosted : kinds[k] = "absent"
    /\ \E k \in Hosted : kinds[k] = "quota"
    /\ IsStr(retval)

\* C2: the providers are invoked in the order of the list, and a provider whose
\* result is usable (not None, not empty, not a quota condition) is the last one
\* invoked: process_transcript returns that very result.
C2_FirstUsableAnswerReturned ==
    /\ invoked = [k \in 1..Len(invoked) |-> k]
    /\ Len(kinds) \in {Len(invoked), Len(invoked) - 1}
    /\ \A k \in 1..Len(kinds) :
          kinds[k] = "usable" =>
            /\ k = Len(kinds)
            /\ Len(invoked) = k
            /\ Truthy(result) /\ ~is_quota_error(result)
            /\ \/ pc = "classify" /\ outcome = "none"
               \/ pc \in {"returned", "done"} /\ outcome = "return" /\ retval = result

C2_Witness ==
    /\ pc = "returned"
    /\ ~IsBlank(transcript)
    /\ kinds = <<"quota", "absent", "usable">>
    /\ invoked = <<1, 2, 3>>
    /\ retval = SummaryText

\* C3: a provider before the last whose result is a quota condition is followed
\* by the next provider of the list; and when the four hosted providers all came
\* to a quota condition, to None or to a fault, what process_transcript returns
\* is process_transcript_demo(transcript).
C3_QuotaAdvancesThenDemo ==
    /\ \A k \in 1..Len(kinds) :
          kinds[k] = "quota" /\ k \in Hosted =>
            /\ \/ pc = "classify" /\ k = Len(kinds)
               \/ pc = "loop" /\ idx = k + 1 /\ Len(invoked) = k
               \/ Len(invoked) > k /\ invoked[k + 1] = k + 1
            /\ outcome # "none" => Len(invoked) > k
    /\ ( /\ outcome = "return"
         /\ \A k \in Hosted : k <= Len(kinds) /\ kinds[k] \in {"quota", "absent", "raised"} )
       => retval = process_transcript_demo(transcript)

C3_Witness ==
    /\ pc = "returned"
    /\ outcome = "return"
    /\ transcript = <<" ", "Q", "3", " ", "b", "u", "d", "g", "e", "t", " ", "r", "e", "v", "i", "e", "w",
        "\n">>
    /\ kinds = <<"quota", "quota", "absent", "quota", "quota">>
    /\ invoked = <<1, 2, 3, 4, 5>>
    /\ retval = DemoReport(3)

\* The diagnostic strings of the hosted adapters for a status that is neither 200
\* nor 429 and for a transport fault
HostedDiagnostics ==
    LET failures == {Fault(m) : m \in FaultMessages}
                      \cup {Http(st, None) : st \in ErrorStatuses \ {HTTP_TOO_MANY}}
    IN  {try_openai_gpt(ApiKey(0), r) : r \in failures}
          \cup {try_anthropic_claude(ApiKey(0), r) : r \in failures}
          \cup {try_huggingface(ApiKey(0), r) : r \in failures}

\* C4: process_transcript skips a hosted provider whose result is such a
\* diagnostic string, so that what it returns is never one of them.
C4_DiagnosticsNeverReturned ==
    /\ pc = "loop" /\ idx > 1 => result \notin HostedDiagnostics \/ is_quota_error(result)
    /\ outcome = "return" => retval \notin HostedDiagnostics

\* C5: the Summarize handler given a blank transcript ends with the warning,
\* without a call of process_transcript and without an outbound request; and it
\* warns for no other transcript.
C5_BlankRejectedAtEntry ==
    /\ caller = "main" /\ IsBlank(transcript) =>
         /\ pc = "done"
         /\ shown = "warning"
         /\ final = MainWarning
         /\ outcome = "none"
         /\ invoked = << >>
         /\ calls = 0
    /\ shown = "warning" => caller = "main" /\ IsBlank(transcript)

C5_Witness ==
    /\ caller = "main"
    /\ transcript = <<" ", "\t", "\n">>
    /\ shown = "warning"
    /\ calls = 0

\* C6: process_transcript given a blank transcript invokes no hosted provider
\* and returns a warning.
C6_OrchestratorRejectsBlank ==
    caller \in {"direct", "retry"} /\ transcript # None /\ IsBlank(transcript) =>
        /\ \A i \in 1..Len(invoked) : invoked[i] \notin Hosted
        /\ calls = 0
        /\ outcome = "return" => retval = DemoWarning

\* The character c is the character d of a marker, in either case
SameLetter(c, d) == c = d \/ (c \in DOMAIN LowerOf /\ LowerOf[c] = d)

\* The text v holds marker m somewhere, case ignored
HoldsMarker(v, m) ==
    \E i \in 0..(Len(v) - Len(m)) : \A j \in 1..Len(m) : SameLetter(v[i + j], m[j])

ClaimedMarkers ==
    {<<"q", "u", "o", "t", "a">>, <<"e", "x", "c", "e", "e", "d", "e", "d">>, <<"4", "2", "9">>, <<"r", "a", "t", "e", " ", "l", "i", "m", "i", "t">>, <<"l", "i", "m", "i", "t", " ", "e", "x", "c", "e", "e", "d", "e", "d">>}

\* C7: is_quota_error is false for None and for the empty string, and otherwise
\* true exactly when the text holds one of the five markers, case ignored; it is
\* true for the four literal strings and false for the summary.
C7_QuotaClassifier ==
    /\ ~is_quota_error(None)
    /\ ~is_quota_error(<< >>)
    /\ is_quota_error(<<"Q", "u", "o", "t", "a", " ", "e", "x", "c", "e", "e", "d", "e", "d">>)
    /\ is_quota_error(<<"H", "T", "T", "P", " ", "4", "2", "9">>)
    /\ is_quota_error(<<"R", "a", "t", "e", " ", "L", "i", "m", "i", "t", " ", "h", "i", "t">>)
    /\ is_quota_error(<<"l", "i", "m", "i", "t", " ", "E", "X", "C", "E", "E", "D", "E", "D">>)
    /\ ~is_quota_error(SummaryText)
    /\ is_quota_error(result) <=>
         (result # None /\ result # << >> /\ \E m \in ClaimedMarkers : HoldsMarker(result, m))

C7_Witness ==
    /\ pc = "classify"
    /\ result = <<"U+274C", " ", "A", "n", "t", "h", "r", "o", "p", "i", "c", " ", "r", "a", "t", "e",
        " ", "l", "i", "m", "i", "t", " ", "e", "x", "c", "e", "e", "d", "e", "d">>
    /\ kinds[Len(kinds)] = "quota"

\* C8: what process_transcript_demo returns as the last provider of the list is
\* not a quota condition, and is accepted as the usable result.
C8_DemoNeverQuota ==
    pc = "classify" /\ Providers[idx] = "demo" /\ ~raised =>
        /\ result = process_transcript_demo(transcript)
        /\ ~is_quota_error(result)
        /\ kinds[Len(kinds)] = "usable"

\* C9: with max_retries >= 1 the wrapper runs a pass after every pass that ended
\* in a quota condition while attempts remain, each from the first provider, and
\* sleeps once between two passes; it returns the first result that is not a
\* quota condition without a sleep after it, and after max_retries passes the
\* last result as it is.  Results quota, quota, usable with max_retries = 3 give
\* two sleeps and the usable result.
C9_RetryUntilUsable ==
    caller = "retry" /\ max_retries >= 1 =>
        /\ Len(passes) <= max_retries
        /\ \A n \in 1..(Len(passes) - 1) : passes[n] # "usable"
        /\ pc \in InPass \cup {"returned"} => sleeps = Len(passes) /\ attempt = Len(passes)
        /\ pc = "loop" /\ invoked = << >> => idx = 1
        /\ pc = "done" =>
             /\ Len(passes) >= 1
             /\ sleeps = Len(passes) - 1
             /\ passes[Len(passes)] = "usable" => final = retval /\ ~is_quota_error(final)
             /\ passes[Len(passes)] = "quota" =>
                  Len(passes) = max_retries /\ final = retval /\ is_quota_error(final)
             /\ passes = <<"quota", "quota", "usable">> /\ max_retries = 3 =>
                  sleeps = 2 /\ final = retval /\ Accepts(final)

C9_Witness ==
    /\ caller = "retry"
    /\ pc = "done"
    /\ max_retries = 3
    /\ passes = <<"quota", "quota", "usable">>
    /\ sleeps = 2
    /\ final = SummaryText

\* The suffixes 1 .. n of the environment env are all set and not empty
Contiguous(env, n) == \A j \in 1..n : env[j] # None /\ env[j] # << >>

\* C10: the keys discovered are the value of the base name, when it is set,
\* followed by the values of the suffixes 1, 2, ... up to the first one missing,
\* in that order; with the base, _1 and _3 set and _2 unset they are the values
\* of the base and of _1.
C10_ScanStopsAtGap ==
    pc = "gemini" =>
        LET n    == Cardinality({i \in 1..MaxKeyIdx : Contiguous(genv, i)})
            base == IF genv[0] # None /\ genv[0] # << >> THEN <<genv[0]>> ELSE << >>
        IN  /\ api_keys = base \o [i \in 1..n |-> genv[i]]
            /\ ( /\ Truthy(genv[0]) /\ Truthy(genv[1]) /\ genv[2] = None
                 /\ Truthy(genv[3]) ) => api_keys = <<genv[0], genv[1]>>

C10_Witness ==
    /\ pc = "gemini"
    /\ genv[0] = ApiKey(0) /\ genv[1] = ApiKey(1) /\ genv[2] = None /\ genv[3] = ApiKey(3)
    /\ api_keys = <<ApiKey(0), ApiKey(1)>>

\* C11: a hosted adapter with no credential configured returns None, not an
\* error or quota message, and makes no outbound request.
C11_NoCredentialReturnsAbsent ==
    pc = "classify" /\ idx \in Hosted =>
        IF Providers[idx] = "google_gemini"
        THEN discovered = 0 => result = None /\ calls = 0
        ELSE ~Truthy(api_key) =>
               result = None /\ kinds[Len(kinds)] = "absent" /\ resp = NoResponse

\* The Gemini call succeeded: a response with a text that is not empty
GeminiSucceeded(o) == o.kind = "text" /\ o.text # << >>

\* C13: try_google_gemini makes one generate_content call for each discovered
\* key, in the order of discovery, going on to the next key after every call that
\* failed or gave no text; it returns the first text that is not empty, trying
\* no later key; and with every key tried in vain it returns a message holding
\* "quota", which is_quota_error classifies as a quota condition.
C13_GeminiTriesKeysInOrder ==
    /\ pc = "gemini" =>
         /\ discovered = Len(api_keys)
         /\ calls = ki - 1
         /\ ki > 1 => api_key = api_keys[ki - 1] /\ ~GeminiSucceeded(resp)
    /\ pc = "classify" /\ Providers[idx] = "google_gemini" =>
         IF GeminiSucceeded(resp)
         THEN /\ result = resp.text
              /\ calls \in 1..discovered
         ELSE /\ calls = discovered
              /\ HoldsMarker(result, <<"q", "u", "o", "t", "a">>)
              /\ is_quota_error(result)
              /\ kinds = <<"quota">>

C13_Witness ==
    /\ pc = "classify"
    /\ Providers[idx] = "google_gemini"
    /\ discovered = 3
    /\ calls = 2
    /\ api_key = ApiKey(1)
    /\ result = SummaryText

\* The diagnostic d of the adapter named by prefix holds the detail
DiagnosticWith(d, prefix, detail) ==
    /\ Len(d) > Len(prefix)
    /\ SubSeq(d, 1, Len(prefix)) = prefix
    /\ \E i \in 0..(Len(d) - Len(detail)) : SubSeq(d, i + 1, i + Len(detail)) = detail

RateLimitDetail == <<"r", "a", "t", "e", " ", "l", "i", "m", "i", "t", " ", "e", "x", "c", "e", "e", "d",
        "e", "d">>

C14_Step ==
    ( /\ pc = "loop"
      /\ Providers[idx] \in {"openai_gpt", "anthropic_claude"}
      /\ pc' # "loop"
      /\ api_key' # None /\ api_key' # << >> )
    => LET prefix == IF Providers[idx] = "openai_gpt"
                     THEN <<"U+274C", " ", "O", "p", "e", "n", "A", "I", " ">> ELSE <<"U+274C", " ", "A", "n", "t", "h", "r", "o", "p", "i", "c", " ">>
       IN  /\ pc' = "classify"
           /\ ~raised'
           /\ calls' = calls + 1
           /\ resp'.kind \in {"fault", "http"}
           /\ resp'.kind = "fault" => DiagnosticWith(result', prefix, resp'.msg)
           /\ resp'.kind = "http" /\ resp'.status = 200 =>
                IF resp'.body.wf THEN result' = resp'.body.content
                ELSE DiagnosticWith(result', prefix, resp'.body.missing)
           /\ resp'.kind = "http" /\ resp'.status = 429 =>
                DiagnosticWith(result', prefix, RateLimitDetail)
           /\ resp'.kind = "http" /\ resp'.status \notin {200, 429} =>
                DiagnosticWith(result', prefix, FormatInt(resp'.status))

\* C14: with a credential, try_openai_gpt and try_anthropic_claude make one
\* outbound request and return: for status 200 the answer text of the body, for
\* status 429 a diagnostic holding "rate limit exceeded", for another status a
\* diagnostic holding the status, for a transport fault or a malformed body a
\* diagnostic holding the fault's description; they never raise.
C14_ChatAdapterOutcomes == [][C14_Step]_vars

C14_Witness ==
    /\ pc = "classify"
    /\ Providers[idx] = "openai_gpt"
    /\ api_key = ApiKey(0)
    /\ resp = Http(500, None)
    /\ result = <<"U+274C", " ", "O", "p", "e", "n", "A", "I", " ", "e", "r", "r", "o", "r", ":", " ",
        "5", "0", "0">>
    /\ calls = discovered + 1

\* C15: in one pass the providers are invoked one after the other in the order
\* of the list, none twice, each one only after the one before it came to no
\* usable result; and the outbound requests are no more than the Google keys
\* discovered plus one for each of the other hosted providers invoked.
C15_SequentialBoundedCalls ==
    /\ \A n \in 1..Len(invoked) : invoked[n] = n
    /\ Len(invoked) <= Len(Providers)
    /\ \A n \in 2..Len(invoked) : n - 1 <= Len(kinds) /\ kinds[n - 1] # "usable"
    /\ pc = "loop" => Len(kinds) = Len(invoked)
    /\ calls <= discovered
                  + Cardinality({n \in 1..Len(invoked) :
                                   n \in Hosted /\ Providers[n] # "google_gemini"})
    /\ calls <= discovered + 3

C15_Witness ==
    /\ pc = "returned"
    /\ invoked = <<1, 2, 3, 4, 5>>
    /\ discovered = 2
    /\ calls = 5

LengthLabel == <<"*", "*", "T", "r", "a", "n", "s", "c", "r", "i", "p", "t", " ", "L", "e", "n", "g",
        "t", "h", ":", "*", "*", " ">>

WordsUnit == <<" ", "w", "o", "r", "d", "s", "\n">>

ReadingLabel == <<"*", "*", "E", "s", "t", "i", "m", "a", "t", "e", "d", " ", "R", "e", "a", "d", "i",
        "n", "g", " ", "T", "i", "m", "e", ":", "*", "*", " ">>

MinutesUnit == <<" ", "m", "i", "n", "u", "t", "e", "s", "\n">>

Length400 == <<"*", "*", "T", "r", "a", "n", "s", "c", "r", "i", "p", "t", " ", "L", "e", "n", "g",
        "t", "h", ":", "*", "*", " ", "4", "0", "0", " ", "w", "o", "r", "d", "s", "\n">>

Reading400 == <<"*", "*", "E", "s", "t", "i", "m", "a", "t", "e", "d", " ", "R", "e", "a", "d", "i",
        "n", "g", " ", "T", "i", "m", "e", ":", "*", "*", " ", "2", ".", "0", " ", "m", "i",
        "n", "u", "t", "e", "s", "\n">>

\* The words of a transcript of DemoTranscripts: each is the one letter w
LettersW(t) == Cardinality({i \in 1..Len(t) : t[i] = "w"})

\* C12: process_transcript_demo returns a string for every string transcript:
\* the warning for a blank one, and for one of n > 0 words a report that states
\* "n words" and a reading time of T tenths of a minute, T / 10 being n / 200 to
\* one decimal place (n within 10 words of 20 * T); for n = 400 the report
\* states "400 words" and "2.0 minutes".
C12_DemoReportFigures ==
    pc = "demo_done" =>
        LET n == LettersW(transcript)
        IN  /\ outcome = "return"
            /\ IsStr(retval)
            /\ n = 0 => retval = DemoWarning
            /\ n > 0 =>
                 /\ Contains(retval, LengthLabel \o FormatInt(n) \o WordsUnit)
                 /\ \E T \in 0..(MaxWords \div 20 + 1) :
                       /\ 20 * T - 10 <= n
                       /\ n <= 20 * T + 10
                       /\ Contains(retval, ReadingLabel \o FormatInt(T \div 10) \o <<".">>
                                               \o Digit(T % 10) \o MinutesUnit)
            /\ n = 400 => Contains(retval, Length400) /\ Contains(retval, Reading400)

C12_Witness ==
    /\ pc = "demo_done"
    /\ transcript = Words(400)
    /\ Contains(retval, Reading400)

\* The Hugging Face body holds a first element with the summary field
HasSummary(body) ==
    /\ body.tag = "list"
    /\ Len(body.items) > 0
    /\ HasKey(body.items[1], summary_text)

\* C16: on a 200 response try_huggingface returns the summary field of the first
\* element when the body is a list that is not empty and whose first element
\* has the field, and the stringified body in every other case.
C16_HuggingFaceExtraction ==
    ( /\ pc = "classify"
      /\ Providers[idx] = "huggingface"
      /\ resp.kind = "http"
      /\ resp.status = HTTP_OK ) =>
        /\ ~raised
        /\ result = IF HasSummary(resp.body)
                    THEN Lookup(resp.body.items[1], summary_text)
                    ELSE ReprJson(resp.body)

\* The provider at idx generated a text: the Gemini response has one, the body
\* of a 200 response is well formed
Generated ==
    /\ idx \in Hosted
    /\ IF Providers[idx] = "google_gemini" THEN resp.kind = "text"
       ELSE /\ resp.kind = "http"
            /\ resp.status = HTTP_OK
            /\ IF Providers[idx] = "huggingface" THEN HasSummary(resp.body)
               ELSE resp.body.wf

GeneratedText ==
    IF Providers[idx] = "google_gemini" THEN resp.text
    ELSE IF Providers[idx] = "huggingface" THEN Lookup(resp.body.items[1], summary_text)
    ELSE resp.body.content

C17_Step ==
    ( /\ pc = "classify"
      /\ Generated
      /\ \E m \in ClaimedMarkers : HoldsMarker(GeneratedText, m) ) =>
        /\ result = GeneratedText
        /\ is_quota_error(result)
        /\ kinds[Len(kinds)] = "quota"
        /\ pc' \in {"loop", "fallback"}
        /\ pc' = "loop" <=> idx < Len(Providers)
        /\ idx' = idx + 1
        /\ outcome' = outcome
        /\ retval' = retval

\* C17: a text a provider generated that holds one of the markers is classified
\* as a quota condition: process_transcript does not return it and goes on with
\* the next provider (after the last one, with the fallback).
C17_MarkedAnswerDiscarded == [][C17_Step]_vars

C17_Witness ==
    /\ pc = "loop"
    /\ idx = 3
    /\ resp = Http(HTTP_OK, ChatBody(<<"R", "a", "t", "e", " ", "L", "i", "m", "i", "t", " ", "h", "i", "t">>))
    /\ result = <<"R", "a", "t", "e", " ", "L", "i", "m", "i", "t", " ", "h", "i", "t">>
    /\ kinds = <<"quota", "quota">>

ErrorAfter == <<"U+274C", " ", "E", "r", "r", "o", "r", " ", "a", "f", "t", "e", "r", " ">>

AttemptsColon == <<" ", "a", "t", "t", "e", "m", "p", "t", "s", ":", " ">>

C18_Step ==
    (pc = "returned" /\ caller = "retry" /\ outcome = "raise") =>
        /\ shown' # "exception"
        /\ IF attempt + 1 < max_retries
           THEN /\ sleeps' = sleeps + 1
                /\ attempt' = attempt + 1
                /\ pc' = "loop"
                /\ idx' = 1
                /\ invoked' = << >>
                /\ transcript' = transcript
                /\ final' = final
           ELSE /\ attempt + 1 = max_retries
                /\ sleeps' = sleeps
                /\ pc' = "done"
                /\ shown' = "value"
                /\ final' = ErrorAfter \o FormatInt(max_retries) \o AttemptsColon \o retval
                /\ IsStr(final')

\* C18: when a pass of process_transcript_with_retry raises, the wrapper sleeps
\* once and runs the whole pass again if the attempt is not the last one; on
\* attempt max_retries it does not sleep and returns the diagnostic that names
\* max_retries; the fault never leaves the wrapper.
C18_FaultRetriedThenReported == [][C18_Step]_vars

C18_Witness ==
    /\ caller = "retry"
    /\ pc = "done"
    /\ max_retries = 3
    /\ passes = <<"fault", "fault", "fault">>
    /\ sleeps = 2
    /\ shown = "value"
    /\ final = ErrorAfter \o <<"3">> \o AttemptsColon \o NoStripMessage

\* C19: for a transcript with words, the report of process_transcript_demo that
\* ends a pass in which no hosted provider was accepted is a quota condition to
\* the wrapper: process_transcript_with_retry returns it only after max_retries
\* passes and max_retries - 1 sleeps, and it returns before its last attempt
\* only with the accepted result of a hosted provider.
C19_DemoReportRetried ==
    (caller = "retry" /\ max_retries >= 1 /\ IsStr(transcript) /\ ~IsBlank(transcript)) =>
        /\ pc = "returned" /\ idx > Len(Providers) =>
             /\ retval = DemoReport(WordCount(transcript))
             /\ is_quota_error(retval)
        /\ pc = "done" /\ idx > Len(Providers) =>
             /\ final = DemoReport(WordCount(transcript))
             /\ Len(passes) = max_retries
             /\ sleeps = max_retries - 1
             /\ \A n \in 1..Len(passes) : passes[n] = "quota"
        /\ pc = "done" /\ Len(passes) < max_retries =>
             /\ idx \in Hosted
             /\ kinds[Len(kinds)] = "usable"
             /\ final = result

C19_Witness ==
    /\ caller = "retry"
    /\ pc = "done"
    /\ max_retries = 3
    /\ transcript = <<"h", "i", " ", "t", "h", "e", "r", "e">>
    /\ idx = Len(Providers) + 1
    /\ passes = <<"quota", "quota", "quota">>
    /\ sleeps = 2
    /\ final = DemoReport(2)

\* C20: a base variable that is unset or empty does not stop the scan of the
\* suffixes: the suffixes 1 .. m being set and m + 1 not, the keys are the
\* values of 1 .. m in order; a suffix set to the empty string is a gap, no
\* suffix from it on being read; and no key is None or empty.
C20_BaseNotNeeded ==
    pc = "gemini" =>
        /\ \A i \in 1..Len(api_keys) : api_keys[i] # None /\ api_keys[i] # << >>
        /\ \A m \in 0..MaxKeyIdx :
              ( /\ genv[0] \in {None, << >>}
                /\ Contiguous(genv, m)
                /\ m < MaxKeyIdx => genv[m + 1] \in {None, << >>} ) =>
                  api_keys = [i \in 1..m |-> genv[i]]
        /\ \A j \in 1..MaxKeyIdx :
              genv[j] = << >> =>
                  \A k \in j..MaxKeyIdx, i \in 1..Len(api_keys) : api_keys[i] # ApiKey(k)

C20_Witness ==
    /\ pc = "gemini"
    /\ genv[0] = None /\ genv[1] = ApiKey(1) /\ genv[2] = ApiKey(2) /\ genv[3] = << >>
    /\ api_keys = <<ApiKey(1), ApiKey(2)>>

====
